---- MODULE Spec2Model ----
(***************************************************************************)
(* The client-side WebSocket handshake of libwebsockets, lib/client.c:     *)
(* lws_client_socket_service (the per-connection state machine),           *)
(* lws_client_interpret_server_handshake and                               *)
(* libwebsockets_generate_client_handshake.                                *)
(*                                                                         *)
(* Build modelled: LWS_OPENSSL_SUPPORT defined, USE_CYASSL and             *)
(* LWS_NO_EXTENSIONS not defined.                                          *)
(*                                                                         *)
(* C strings are sequences of one-character strings (without the NUL).     *)
(* A char pointer is a record [null, s]; free() does not clear a pointer,  *)
(* so a freed pointer keeps its value and the heap counts the free() calls.*)
(***************************************************************************)
EXTENDS Integers, Sequences, FiniteSets, TLC

\* ------------------------------------------------------------------ bounds

\* Number of service ticks (poll events) delivered to the connection.
MaxTicks == 5

\* ------------------------------------------------------------- C strings

NUL == "\\0"

NULL == [null |-> TRUE, s |-> <<>>]

Str(chars) == [null |-> FALSE, s |-> chars]

UpperCase == <<"A","B","C","D","E","F","G","H","I","J","K","L","M",
               "N","O","P","Q","R","S","T","U","V","W","X","Y","Z">>

LowerCase == <<"a","b","c","d","e","f","g","h","i","j","k","l","m",
               "n","o","p","q","r","s","t","u","v","w","x","y","z">>

tolower(c) ==
    IF \E i \in 1..26 : UpperCase[i] = c
    THEN LowerCase[CHOOSE i \in 1..26 : UpperCase[i] = c]
    ELSE c

\* A strtolower that leaves the string as it is.
strtolower_unchanged(chars) == chars

\* The in-place lower-casing of a NUL-terminated string.
strtolower(chars) == [i \in 1..Len(chars) |-> tolower(chars[i])]

Min(a, b) == IF a < b THEN a ELSE b

\* *(p + i) for a string starting at 1-based offset 1: the NUL ends it.
At(chars, i) == IF i <= Len(chars) THEN chars[i] ELSE NUL

\* The string a pointer pc (1-based offset into chars) points at.
From(chars, pc) == SubSeq(chars, pc, Len(chars))

\* strcmp(a, b) == 0
strcmp_eq(a, b) == a = b

\* strncmp(a, b, n) == 0
strncmp_eq(a, b, n) ==
    SubSeq(a, 1, Min(n, Len(a))) = SubSeq(b, 1, Min(n, Len(b)))

s_101 == <<"1","0","1">>

s_websocket == <<"w","e","b","s","o","c","k","e","t">>

s_upgrade == <<"u","p","g","r","a","d","e">>

\* "HTTP/1.0 200 ", the 13 bytes a proxy reply must start with
s_proxy_ok == <<"H","T","T","P","/","1",".","0"," ","2","0","0"," ">>

ProxyPrefixLen == 13

\* ------------------------------------------------- context (registries)

s_chat == <<"c","h","a","t">>

s_superchat == <<"s","u","p","e","r","c","h","a","t">>

s_video == <<"v","i","d","e","o">>

s_deflate == <<"d","e","f","l","a","t","e">>

s_mux == <<"m","u","x">>

\* context->protocols[], terminated by an entry with a NULL callback.
\* protocols[n] of the C code is Protocols[n + 1].
Protocols == <<
    [name |-> s_chat,      per_session_data_size |-> 8, rx_buffer_size |-> 0],
    [name |-> s_superchat, per_session_data_size |-> 0, rx_buffer_size |-> 128] >>

\* context->extensions[], terminated by an entry with a NULL callback.
Extensions == <<
    [name |-> s_deflate, per_session_data_size |-> 16],
    [name |-> s_mux,     per_session_data_size |-> 4] >>

NoProtocol == -1

NoCallback == -1

\* ------------------------------------------------------------------ state

VARIABLES
    wsi,            \* struct libwebsocket: the fields client.c reads and writes
    heap,           \* free() calls on the owned buffers, extension blocks
    calls,          \* callbacks delivered, in order
    closes,         \* libwebsocket_close_and_free_session calls: their status
    sock,           \* what the handler did on the transport
    service_buffer, \* context->service_buffer (its first bytes)
    crashed,        \* the process died on an invalid memory access
    last,           \* inputs and outcome of the last service call
    ticks,          \* service calls so far
    net             \* the peer: bytes on the wire, arrival, end of stream

vars == <<wsi, heap, calls, closes, sock, service_buffer, crashed, last,
          ticks, net>>

Tokens == {"HTTP", "UPGRADE", "CONNECTION", "ACCEPT", "PROTOCOL", "EXTENSIONS"}

NoToken == [token |-> NULL, token_len |-> 0]

Tok(chars) == [token |-> Str(chars), token_len |-> Len(chars)]

OwnedStrings == {"c_path", "c_host", "c_origin", "c_protocol"}

\* Everything the code changes, as one value the operators below transform.
Cur ==
    [wsi |-> wsi, heap |-> heap, calls |-> calls, closes |-> closes,
     sock |-> sock, service_buffer |-> service_buffer, crashed |-> crashed,
     last |-> last]

Commit(s) ==
    /\ wsi' = s.wsi
    /\ heap' = s.heap
    /\ calls' = s.calls
    /\ closes' = s.closes
    /\ sock' = s.sock
    /\ service_buffer' = s.service_buffer
    /\ crashed' = s.crashed
    /\ last' = s.last

\* ------------------------------------------------------- small operations

\* libwebsocket_set_timeout(wsi, reason, secs)
libwebsocket_set_timeout(s, reason) ==
    [s EXCEPT !.wsi.pending_timeout = reason]

\* libwebsocket_close_and_free_session(context, wsi, reason)
libwebsocket_close_and_free_session(s, reason) ==
    [s EXCEPT !.closes = Append(@, reason)]

\* libwebsocket_callback_on_writable(context, wsi)
libwebsocket_callback_on_writable(s) ==
    [s EXCEPT !.sock.pollout = TRUE]

\* A callback delivered to a protocol (idx: its registry index) or to an
\* extension (idx: its registry index); arg: the extension named, or the
\* per-connection block passed (0: NULL).
Callback(s, reason, idx, arg) ==
    [s EXCEPT !.calls = Append(@, [cb |-> reason, idx |-> idx, arg |-> arg])]

\* free(p) of one of the owned strings
FreeString(s, which) ==
    [s EXCEPT !.heap.frees[which] = @ + 1]

\* if (p) free(p)
FreeStringIfSet(s, which) ==
    IF s.wsi[which].null THEN s ELSE FreeString(s, which)

\* A segmentation fault: the process is gone.
Crash(s) == [s EXCEPT !.crashed = TRUE]

\* ---------------------------------------------------- handshake generator

\* The 16 bytes libwebsockets_get_random delivers (two nonces are told
\* apart: all zero, and 01 02 .. 10 hex).
Nonces == {"zero", "golden"}

\* lws_b64_encode_string(hash, 16, key_b64, ...)
KeyB64(nonce) ==
    IF nonce = "zero" THEN "AAAAAAAAAAAAAAAAAAAAAA=="
                      ELSE "AQIDBAUGBwgJCgsMDQ4PEA=="

\* base64(SHA1(key_b64 + "258EAFA5-E914-47DA-95CA-C5AB0DC85B11"))
AcceptB64(key_b64) ==
    IF key_b64 = "AAAAAAAAAAAAAAAAAAAAAA=="
    THEN <<"I","C","X","+","Y","q","v","6","6","k","x","g","M","0","F","c",
           "W","a","L","W","l","F","L","w","T","A","I","=">>
    ELSE <<"9","s","+","t","b","i","L","1","a","t","f","t","A","W","K","m",
           "E","c","p","B","v","v","O","g","k","0","E","=">>

NExt == Len(Extensions)

\* The answer of the extension asked last, the earlier ones forgotten.
OrVeto_last(n, ret) == ret

\* line 791, n |= ext1->callback(...): one non-zero answer is a veto
OrVeto(n, ret) == n \/ ret

\* lines 790-796: every registered extension is asked whether extension
\* cand may be proposed; n is the OR of what they return.
RECURSIVE CheckOkToPropose(_, _, _, _, _)
CheckOkToPropose(s, ext1, cand, n, in) ==
    IF ext1 >= NExt THEN [s |-> s, n |-> n]
    ELSE CheckOkToPropose(
            Callback(s, "LWS_EXT_CALLBACK_CHECK_OK_TO_PROPOSE_EXTENSION",
                     ext1, cand),
            ext1 + 1, cand,
            OrVeto(n, <<ext1, cand>> \in in.ext_veto), in)

\* lines 784-828: the names proposed in Sec-WebSocket-Extensions, joined
\* by commas as the code joins them.
RECURSIVE ProposeExtensions(_, _, _, _, _)
ProposeExtensions(s, ext, ext_count, p, in) ==
    IF ext >= NExt THEN [s |-> s, p |-> p]
    ELSE LET chk == CheckOkToPropose(s, 0, ext, FALSE, in)
         IN IF chk.n
            THEN ProposeExtensions(chk.s, ext + 1, ext_count, p, in)
            ELSE LET s2 == Callback(chk.s,
                              "LWS_CALLBACK_CLIENT_CONFIRM_EXTENSION_SUPPORTED",
                              0, ext)
                 IN IF ext \in in.user_veto
                    THEN ProposeExtensions(s2, ext + 1, ext_count, p, in)
                    ELSE ProposeExtensions(s2, ext + 1, ext_count + 1,
                            (IF ext_count # 0 THEN p \o <<",">> ELSE p)
                                \o Extensions[ext + 1].name, in)

Line(h, v) == [h |-> h, v |-> v]

\* The origin header under its old name whatever the revision.
OriginLine_oldname(w) ==
    IF w.c_origin.null THEN <<>>
    ELSE << Line("Sec-WebSocket-Origin", w.c_origin.s) >>

\* lines 769-775: the origin header, named after the protocol revision
OriginLine(w) ==
    IF w.c_origin.null THEN <<>>
    ELSE IF w.ietf_spec_revision = 13
         THEN << Line("Origin", w.c_origin.s) >>
         ELSE << Line("Sec-WebSocket-Origin", w.c_origin.s) >>

\* The expected accept value computed from a key other than the one sent.
PrepareAccept_otherkey(s, key_b64) ==
    [s EXCEPT !.wsi.initial_handshake_hash_base64 =
                  AcceptB64(KeyB64("zero"))]

\* lines 844-852: the expected accept value, from key_b64 and the GUID
PrepareAccept(s, key_b64) ==
    [s EXCEPT !.wsi.initial_handshake_hash_base64 = AcceptB64(key_b64)]

\* lines 714-727: the random source failed
GenerateRandomFailed(s) ==
    LET s1 == FreeString(FreeString(s, "c_path"), "c_host")
        s2 == FreeStringIfSet(FreeStringIfSet(s1, "c_origin"), "c_protocol")
    IN [s |-> libwebsocket_close_and_free_session(s2, "NOSTATUS"),
        p |-> <<>>, ok |-> FALSE]

\* libwebsockets_generate_client_handshake: the request, line by line, and
\* the expected accept value stored for the interpreter.
libwebsockets_generate_client_handshake(s, in) ==
    IF in.random = "fail" THEN GenerateRandomFailed(s)
    ELSE
    LET key_b64 == KeyB64(in.random)
        head == << Line("GET", s.wsi.c_path.s),
                   Line("Pragma", "no-cache"),
                   Line("Cache-Control", "no-cache"),
                   Line("Host", s.wsi.c_host.s),
                   Line("Upgrade", "websocket"),
                   Line("Connection", "Upgrade"),
                   Line("Sec-WebSocket-Key", key_b64) >>
        origin == OriginLine(s.wsi)
        proto == IF s.wsi.c_protocol.null THEN <<>>
                 ELSE << Line("Sec-WebSocket-Protocol", s.wsi.c_protocol.s) >>
        prop == ProposeExtensions(
                    [s EXCEPT !.last.ext_veto = in.ext_veto,
                              !.last.user_veto = in.user_veto],
                    0, 0, <<>>, in)
        exts == << Line("Sec-WebSocket-Extensions", prop.p) >>
        version == IF s.wsi.ietf_spec_revision # 0
                   THEN << Line("Sec-WebSocket-Version",
                                s.wsi.ietf_spec_revision) >>
                   ELSE <<>>
        s1 == Callback(prop.s, "LWS_CALLBACK_CLIENT_APPEND_HANDSHAKE_HEADER",
                       0, 0)
        pkt == head \o origin \o proto \o exts \o version
                 \o << Line("user-appended", in.append), Line("", "") >>
        s2 == [PrepareAccept(s1, key_b64) EXCEPT
                         !.service_buffer = <<"G","E","T"," ">>]
        s3 == FreeStringIfSet(FreeString(FreeString(s2, "c_path"), "c_host"),
                              "c_origin")
    IN [s |-> s3, p |-> pkt, ok |-> TRUE]

\* ------------------------------------------- service: issuing the handshake

NoRecv == [n |-> 0 - 1, data |-> <<>>]

\* What the journal of a service call starts as (filter: what the user
\* callback returned for FILTER_PRE_ESTABLISH, -1 when it was not called;
\* ext_veto, user_veto: the callbacks that answer non-zero while the
\* request is built).
Journal(mode, revents) ==
    [mode |-> mode, revents |-> revents, recv |-> NoRecv, proxy_read |-> FALSE,
     connect |-> "none", verify |-> "none", generated |-> FALSE,
     write |-> "none", read_end |-> "none", fed_without_read |-> FALSE,
     filter |-> 0 - 1, ext_veto |-> {}, user_veto |-> {}, bail |-> "none"]

\* The request written, and the mode set to the wrong constant.
AfterWrite_backwards(s, pkt, in) ==
    IF in.write = "fail"
    THEN libwebsocket_close_and_free_session(
            [s EXCEPT !.last.write = "fail"], "NOSTATUS")
    ELSE [s EXCEPT !.last.write = "ok",
                   !.sock.sent = Append(@, pkt),
                   !.wsi.mode = "WAITING_PROXY_REPLY"]

\* lines 223-234: the request was written (or the write failed)
AfterWrite(s, pkt, in) ==
    IF in.write = "fail"
    THEN libwebsocket_close_and_free_session(
            [s EXCEPT !.last.write = "fail"], "NOSTATUS")
    ELSE LET s1 == [s EXCEPT !.last.write = "ok",
                             !.sock.sent = Append(@, pkt),
                             !.wsi.parser_state = "WSI_TOKEN_NAME_PART",
                             !.wsi.lextable_pos = 0,
                             !.wsi.mode = "WAITING_SERVER_REPLY"]
         IN libwebsocket_set_timeout(s1,
                "PENDING_TIMEOUT_AWAITING_SERVER_RESPONSE")

\* lines 204-236: generate the request and send it
SendHandshake(s, in) ==
    LET g == libwebsockets_generate_client_handshake(
                [s EXCEPT !.last.generated = TRUE], in)
    IN IF ~g.ok
       THEN libwebsocket_close_and_free_session(g.s, "NOSTATUS")
       ELSE AfterWrite(g.s, g.p, in)

\* A verification that tolerates nothing but X509_V_OK.
VerifyRejects_strict(use_ssl, verify) == verify # "X509_V_OK"

\* lines 187-198: SSL_get_verify_result; use_ssl == 2 tolerates a
\* self-signed certificate.
VerifyRejects(use_ssl, verify) ==
    /\ verify # "X509_V_OK"
    /\ (verify # "X509_V_ERR_DEPTH_ZERO_SELF_SIGNED_CERT" \/ use_ssl # 2)

\* lines 143-201: the TLS connect step
TlsConnect(s, in) ==
    LET s1 == [s EXCEPT !.last.connect = in.connect]
    IN IF in.connect \in {"SSL_ERROR_WANT_READ", "SSL_ERROR_WANT_WRITE"}
       THEN libwebsocket_callback_on_writable(s1)
       ELSE IF in.connect # "OK"
       THEN s1
       ELSE IF VerifyRejects(s1.wsi.use_ssl, in.verify)
       THEN libwebsocket_close_and_free_session(
                [s1 EXCEPT !.last.verify = in.verify], "NOSTATUS")
       ELSE SendHandshake([s1 EXCEPT !.last.verify = in.verify], in)

\* case LWS_CONNMODE_WS_CLIENT_ISSUE_HANDSHAKE, lines 91-236
IssueHandshake(s, in) ==
    LET s1 == Callback([s EXCEPT !.sock.pollout = FALSE],
                       "LWS_CALLBACK_CLEAR_MODE_POLL_FD", 0, 0)
        s2 == IF s1.wsi.use_ssl # 0 /\ ~s1.wsi.ssl
              THEN [s1 EXCEPT !.wsi.ssl = TRUE] ELSE s1
    IN IF s2.wsi.use_ssl # 0
       THEN TlsConnect(s2, in)
       ELSE SendHandshake([s2 EXCEPT !.wsi.ssl = FALSE], in)

\* ------------------------------------------ service: waiting for the proxy

\* recv() into the service buffer: the first n bytes are overwritten.
RecvInto(buffer, data) ==
    data \o SubSeq(buffer, Len(data) + 1, Len(buffer))

\* context->service_buffer[13] = '\0'
Terminate(buffer) ==
    IF Len(buffer) > ProxyPrefixLen
    THEN [buffer EXCEPT ![ProxyPrefixLen + 1] = NUL] ELSE buffer

\* The C string at the start of a buffer: up to its first NUL.
RECURSIVE CString(_)
CString(buffer) ==
    IF buffer = <<>> \/ Head(buffer) = NUL THEN <<>>
    ELSE <<Head(buffer)>> \o CString(Tail(buffer))

\* case LWS_CONNMODE_WS_CLIENT_WAITING_PROXY_REPLY, lines 54-89, which
\* falls through to the issue-handshake case.
WaitingProxyReply(s, in) ==
    IF in.revents \cap {"POLLERR", "POLLHUP"} # {}
    THEN libwebsocket_close_and_free_session(s, "NOSTATUS")
    ELSE LET s1 == [s EXCEPT !.last.recv = in.recv,
                             !.last.proxy_read = TRUE,
                             !.sock.proxy_reads = @ + 1]
         IN IF in.recv.n < 0
            THEN libwebsocket_close_and_free_session(s1, "NOSTATUS")
            ELSE LET buf == Terminate(RecvInto(s1.service_buffer, in.recv.data))
                     s2 == [s1 EXCEPT !.service_buffer = buf]
                 IN IF ~strcmp_eq(CString(buf), s_proxy_ok)
                    THEN libwebsocket_close_and_free_session(s2, "NOSTATUS")
                    ELSE IssueHandshake(
                            libwebsocket_set_timeout(s2, "NO_PENDING_TIMEOUT"),
                            in)

\* --------------------------------------------------- handshake interpreter

\* for (n = 0; n < WSI_TOKEN_COUNT; n++) if (hdrs[n].token) free(hdrs[n].token)
FreeTokens(s) ==
    [s EXCEPT !.heap.token_frees =
        [k \in Tokens |-> IF s.wsi.hdrs[k].token.null THEN @[k] ELSE @[k] + 1]]

\* A bail2 that tears down without telling user code.
Bail2_silent(s) ==
    libwebsocket_close_and_free_session(FreeTokens(s), "PROTOCOL_ERR")

\* bail2, lines 674-689
Bail2(s) ==
    LET s1 == IF s.wsi.c_callback # NoCallback
              THEN Callback(s, "LWS_CALLBACK_CLIENT_CONNECTION_ERROR",
                            s.wsi.c_callback, 0)
              ELSE s
    IN libwebsocket_close_and_free_session(FreeTokens(s1), "PROTOCOL_ERR")

\* bail3, lines 670-672, falling into bail2
Bail3(s) == Bail2(FreeStringIfSet(s, "c_protocol"))

Failed(s, why) == [s EXCEPT !.last.bail = why]

\* The per-connection block of extension ext among the active ones (the
\* last match wins), 0 (NULL) when it is not active: lines 657-660.
\* No extension is told of its own state block.
ActiveBlock_null(w, ext) == 0

ActiveBlock(w, ext) ==
    LET hits == {n \in 1..w.count_active_extensions :
                    w.active_extensions[n] = ext}
    IN IF hits = {} THEN 0
       ELSE w.active_extensions_user[CHOOSE n \in hits :
                                        \A m \in hits : m <= n]

\* lines 654-665: every registered extension hears ANY_WSI_ESTABLISHED
RECURSIVE InformExtensions(_, _)
InformExtensions(s, ext) ==
    IF ext >= NExt THEN s
    ELSE InformExtensions(
            Callback(s, "LWS_EXT_CALLBACK_ANY_WSI_ESTABLISHED", ext,
                     ActiveBlock(s.wsi, ext)),
            ext + 1)

\* memset(&wsi->u, 0, sizeof wsi->u): the header scratch area is gone
UnionTransition(s) ==
    [s EXCEPT !.wsi.hdrs = [k \in Tokens |-> NoToken],
              !.wsi.parser_state = "ZERO",
              !.wsi.lextable_pos = 0,
              !.wsi.initial_handshake_hash_base64 = <<>>,
              !.wsi.rx_user_buffer = FALSE]

\* lines 630-668: the receive buffer, CLIENT_ESTABLISHED, the extensions
AllocateRxBuffer(s, in) ==
    IF in.rx_alloc_fail
    THEN Bail3(Failed(s, "rx_buffer"))
    ELSE InformExtensions(
            Callback([s EXCEPT !.wsi.rx_user_buffer = TRUE],
                     "LWS_CALLBACK_CLIENT_ESTABLISHED", s.wsi.protocol, 0),
            0)

\* lines 597-622: the last callback before the connection is marked alive.
\* What the callback returns (in.filter) is dropped by the call statement;
\* the journal keeps it.
Establish(s, in) ==
    LET s1 == Callback([s EXCEPT !.last.filter = in.filter],
                       "LWS_CALLBACK_CLIENT_FILTER_PRE_ESTABLISH",
                       s.wsi.protocol, 0)
        s2 == FreeTokens(libwebsocket_set_timeout(s1, "NO_PENDING_TIMEOUT"))
        s3 == [s2 EXCEPT !.wsi.state = "WSI_STATE_ESTABLISHED",
                         !.wsi.mode = "WS_CLIENT"]
    IN AllocateRxBuffer(UnionTransition(s3), in)

\* lines 592-595: libwebsocket_ensure_user_space
EnsureUserSpace(s, in) ==
    IF Protocols[s.wsi.protocol + 1].per_session_data_size # 0
    THEN IF in.user_alloc_fail
         THEN Bail2(Failed(s, "user_space"))
         ELSE Establish([s EXCEPT !.wsi.user_space = TRUE], in)
    ELSE Establish(s, in)

\* What a read through a NULL pointer led to: the process dies, or the
\* bytes at address 0 compare equal, or they compare different.
UbOutcomes == {"crash", "equal", "differ"}

\* A wrong accept value that returns without closing the session.
CheckAccept_open(s, in) ==
    LET tok == s.wsi.hdrs["ACCEPT"].token
        same == IF tok.null THEN in.ub = "equal"
                ELSE strcmp_eq(tok.s, s.wsi.initial_handshake_hash_base64)
    IN IF tok.null /\ in.ub = "crash" THEN Crash(s)
       ELSE IF ~same THEN Failed(s, "accept")
       ELSE EnsureUserSpace(s, in)

\* check_accept, lines 583-590
CheckAccept(s, in) ==
    LET tok == s.wsi.hdrs["ACCEPT"].token
        same == IF tok.null THEN in.ub = "equal"
                ELSE strcmp_eq(tok.s, s.wsi.initial_handshake_hash_base64)
    IN IF tok.null /\ in.ub = "crash" THEN Crash(s)
       ELSE IF ~same THEN Bail2(Failed(s, "accept"))
       ELSE EnsureUserSpace(s, in)

ExtNameSize == 128

\* ext_name[n] = *c++; if (n < sizeof(ext_name) - 1) n++;
ExtNameAdd(name, ch) ==
    IF Len(name) < ExtNameSize - 1 THEN Append(name, ch) ELSE name

\* lines 524-565: every registry entry named ext_name is instantiated.
\* Returns the state, whether one matched (n) and whether malloc failed.
RECURSIVE InstantiateExtension(_, _, _, _, _)
InstantiateExtension(s, ext_name, ext, n, in) ==
    IF ext >= NExt THEN [s |-> s, n |-> n, nomem |-> FALSE]
    ELSE IF ~strcmp_eq(ext_name, Extensions[ext + 1].name)
    THEN InstantiateExtension(s, ext_name, ext + 1, n, in)
    ELSE IF s.heap.blocks + 1 = in.ext_alloc_fail
    THEN [s |-> s, n |-> TRUE, nomem |-> TRUE]
    ELSE LET block == s.heap.blocks + 1
             s1 == [s EXCEPT
                     !.heap.blocks = block,
                     !.wsi.active_extensions_user = Append(@, block),
                     !.wsi.active_extensions = Append(@, ext)]
             s2 == Callback(s1, "LWS_EXT_CALLBACK_CLIENT_CONSTRUCT", ext,
                            block)
             s3 == [s2 EXCEPT !.wsi.count_active_extensions = @ + 1]
         IN InstantiateExtension(s3, ext_name, ext + 1, TRUE, in)

\* lines 501-574: the server's extension list, name by name. c is the
\* 1-based offset of the read pointer, name the bytes of ext_name so far.
RECURSIVE ExtensionLoop(_, _, _, _, _)
ExtensionLoop(s, tok, c, name, in) ==
    LET ch == At(tok, c)
    IN IF ch # NUL /\ ch \notin {",", " ", "\t"}
       THEN ExtensionLoop(s, tok, c + 1, ExtNameAdd(name, ch), in)
       ELSE IF ch # NUL /\ name = <<>>
       THEN ExtensionLoop(s, tok, c + 1, name, in)
       ELSE LET r == InstantiateExtension(s, name, 0, FALSE, in)
            IN IF r.nomem THEN Bail2(Failed(r.s, "ext_alloc"))
               ELSE IF ~r.n THEN Bail2(Failed(r.s, "unknown_extension"))
               ELSE IF ch = NUL THEN CheckAccept(r.s, in)
               ELSE ExtensionLoop(r.s, tok, c + 1, <<>>, in)

\* check_extensions, lines 487-574
CheckExtensions(s, in) ==
    IF s.wsi.hdrs["EXTENSIONS"].token_len = 0
    THEN CheckAccept(s, in)
    ELSE ExtensionLoop(s, s.wsi.hdrs["EXTENSIONS"].token.s, 1, <<>>, in)

\* while (*pc && *pc != ch) pc++
RECURSIVE SkipUntil(_, _, _)
SkipUntil(list, pc, ch) ==
    IF At(list, pc) # NUL /\ At(list, pc) # ch
    THEN SkipUntil(list, pc + 1, ch) ELSE pc

\* lines 438-450: is the server's protocol one of those offered? pc is the
\* 1-based offset of the scan pointer into the offered list.
RECURSIVE ProtocolOffered(_, _, _)
ProtocolOffered(list, tok, pc) ==
    IF At(list, pc) = NUL THEN FALSE
    ELSE IF /\ strncmp_eq(From(list, pc), tok, Len(tok))
            /\ At(list, pc + Len(tok)) \in {",", NUL}
    THEN TRUE
    ELSE ProtocolOffered(list, tok,
                         SkipUntil(list, SkipUntil(list, pc, ","), " "))

\* lines 467-476: the first registry entry with this name, or NoProtocol
FindProtocol(name) ==
    LET hits == {n \in 0..(Len(Protocols) - 1) :
                    strcmp_eq(name, Protocols[n + 1].name)}
    IN IF hits = {} THEN NoProtocol
       ELSE CHOOSE n \in hits : \A m \in hits : n <= m

\* lines 464-484: bind the registry entry the server named
SelectProtocol(s, in) ==
    LET n == FindProtocol(s.wsi.hdrs["PROTOCOL"].token.s)
    IN IF n = NoProtocol
       THEN Bail2(Failed([s EXCEPT !.wsi.protocol = NoProtocol],
                         "protocol_not_registered"))
       ELSE CheckExtensions([s EXCEPT !.wsi.protocol = n,
                                      !.wsi.c_callback = n], in)

\* lines 410-462: the protocol the server picked against those offered
CheckProtocol(s, in) ==
    IF s.wsi.hdrs["PROTOCOL"].token_len = 0
    THEN CheckExtensions(
            FreeStringIfSet([s EXCEPT !.wsi.protocol = 0,
                                      !.wsi.c_callback = 0], "c_protocol"),
            in)
    ELSE IF s.wsi.c_protocol.null /\ in.ub = "crash" THEN Crash(s)
    ELSE LET okay == IF s.wsi.c_protocol.null THEN in.ub = "equal"
                     ELSE ProtocolOffered(s.wsi.c_protocol.s,
                              s.wsi.hdrs["PROTOCOL"].token.s, 1)
             s1 == FreeStringIfSet(s, "c_protocol")
         IN IF ~okay THEN Bail2(Failed(s1, "protocol_not_offered"))
            ELSE SelectProtocol(s1, in)

\* strtolower(hdrs[k].token), in place
LowerToken(s, k) ==
    [s EXCEPT !.wsi.hdrs[k].token.s = strtolower(@)]

\* lines 401-408
CheckConnection(s, in) ==
    LET tok == s.wsi.hdrs["CONNECTION"].token
        s1 == IF tok.null THEN s ELSE LowerToken(s, "CONNECTION")
        same == IF tok.null THEN in.ub = "equal"
                ELSE strcmp_eq(s1.wsi.hdrs["CONNECTION"].token.s, s_upgrade)
    IN IF tok.null /\ in.ub = "crash" THEN Crash(s)
       ELSE IF ~same THEN Bail3(Failed(s1, "connection"))
       ELSE CheckProtocol(s1, in)

\* lines 392-399
CheckUpgrade(s, in) ==
    LET tok == s.wsi.hdrs["UPGRADE"].token
        s1 == IF tok.null THEN s ELSE LowerToken(s, "UPGRADE")
        same == IF tok.null THEN in.ub = "equal"
                ELSE strcmp_eq(s1.wsi.hdrs["UPGRADE"].token.s, s_websocket)
    IN IF tok.null /\ in.ub = "crash" THEN Crash(s)
       ELSE IF ~same THEN Bail3(Failed(s1, "upgrade"))
       ELSE CheckConnection(s1, in)

\* lines 384-390
CheckStatus(s, in) ==
    LET tok == s.wsi.hdrs["HTTP"].token
        s1 == IF tok.null THEN s ELSE LowerToken(s, "HTTP")
        same == IF tok.null THEN in.ub = "equal"
                ELSE strncmp_eq(s1.wsi.hdrs["HTTP"].token.s, s_101, 3)
    IN IF tok.null /\ in.ub = "crash" THEN Crash(s)
       ELSE IF ~same THEN Bail3(Failed(s1, "status"))
       ELSE CheckUpgrade(s1, in)

lws_client_interpret_server_handshake(s, in) == CheckStatus(s, in)

\* ---------------------------------------------------------- header parser

CR == "\r"

LF == "\n"

\* libwebsocket_parse(wsi, c): one byte of the response. It follows the
\* line structure only; the values of the header tokens are stored when
\* the empty line completes the response (resp: what the bytes spelled).
\* A byte "!" stands for anything the parser refuses.
libwebsocket_parse(s, c, resp) ==
    LET st == s.wsi.parser_state
        s1 == [s EXCEPT !.sock.fed = Append(@, c)]
    IN IF c = "!" THEN [s |-> s1, err |-> TRUE]
       ELSE IF st = "WSI_TOKEN_NAME_PART"
       THEN IF s.wsi.lextable_pos = 0 /\ c = CR
            THEN [s |-> [s1 EXCEPT !.wsi.lextable_pos = 1], err |-> FALSE]
            ELSE IF s.wsi.lextable_pos = 1 /\ c = LF
            THEN [s |-> [s1 EXCEPT !.wsi.parser_state = "WSI_PARSING_COMPLETE",
                                   !.wsi.lextable_pos = 0,
                                   !.wsi.hdrs = resp,
                                   !.sock.resp = resp],
                  err |-> FALSE]
            ELSE [s |-> [s1 EXCEPT !.wsi.parser_state = "WSI_TOKEN_SKIPPING",
                                   !.wsi.lextable_pos = 0],
                  err |-> FALSE]
       ELSE IF st = "WSI_TOKEN_SKIPPING"
       THEN [s |-> IF c = CR
                   THEN [s1 EXCEPT !.wsi.parser_state =
                                        "WSI_TOKEN_SKIPPING_SAW_CR"]
                   ELSE s1,
             err |-> FALSE]
       ELSE [s |-> [s1 EXCEPT !.wsi.parser_state =
                        IF c = LF THEN "WSI_TOKEN_NAME_PART"
                                  ELSE "WSI_TOKEN_SKIPPING"],
             err |-> FALSE]

\* ------------------------------------- service: waiting for the response

\* bail3 of lws_client_socket_service, lines 314-320
ServiceBail3(s) ==
    libwebsocket_close_and_free_session(
        FreeStringIfSet(s, "c_protocol"), "NOSTATUS")

ReadEnded(s, how) == [s EXCEPT !.last.read_end = how]

\* What the one-byte read finds: a byte of the stream, its end (0), or
\* nothing yet.
Readable(s) == s.sock.taken < net.arrived

AtEof(s) == ~Readable(s) /\ net.eof

\* lines 303-312: after the loop
AfterReadLoop(s, in) ==
    IF s.wsi.parser_state # "WSI_PARSING_COMPLETE"
    THEN s
    ELSE lws_client_interpret_server_handshake(
            ReadEnded(s, "complete"), in)

RECURSIVE ReadLoop(_, _, _)

\* lines 274-294, the body of the loop: one byte is read and fed to the
\* parser. c is the local variable the byte is read into: "uninit" until
\* a read of this call has stored one. A read that returns 0 stores
\* nothing, and the parser is fed what c holds.
ReadStep(s, c, in) ==
    IF Readable(s)
    THEN LET byte == net.wire[s.sock.taken + 1]
             r == libwebsocket_parse([s EXCEPT !.sock.taken = @ + 1],
                                     byte, in.resp)
         IN IF r.err THEN ServiceBail3(ReadEnded(r.s, "parse_error"))
            ELSE ReadLoop(r.s, byte, in)
    ELSE IF AtEof(s)
    THEN LET r == libwebsocket_parse(
                      [s EXCEPT !.last.fed_without_read = TRUE],
                      IF c = "uninit" THEN in.garbage ELSE c, in.resp)
         IN IF r.err THEN ServiceBail3(ReadEnded(r.s, "parse_error"))
            ELSE AfterReadLoop(ReadEnded(r.s, "eof"), in)
    ELSE IF in.stall = "error"
    THEN ServiceBail3(ReadEnded(s, "error"))
    ELSE IF s.wsi.use_ssl # 0
    THEN ReadEnded(s, "SSL_ERROR_WANT_READ")
    ELSE ServiceBail3(ReadEnded(s, "EAGAIN"))

\* A loop that tests for completion only after its read: it takes one
\* byte more than the response.
ReadLoop_greedy(s, c, in) ==
    IF s.wsi.parser_state = "WSI_PARSING_COMPLETE"
    THEN AfterReadLoop(
            [s EXCEPT !.sock.taken = IF Readable(s) THEN @ + 1 ELSE @], in)
    ELSE ReadStep(s, c, in)

\* lines 272-295: while (parser_state != WSI_PARSING_COMPLETE && len > 0)
ReadLoop(s, c, in) ==
    IF s.wsi.parser_state = "WSI_PARSING_COMPLETE"
    THEN AfterReadLoop(s, in)
    ELSE ReadStep(s, c, in)

\* A reply case that looks at POLLIN alone: a hung-up socket that is still
\* readable is read.
WaitingServerReply_pollin(s, in) ==
    IF "POLLIN" \notin in.revents
    THEN ServiceBail3(s)
    ELSE ReadLoop(s, "uninit", in)

\* case LWS_CONNMODE_WS_CLIENT_WAITING_SERVER_REPLY, lines 238-320
WaitingServerReply(s, in) ==
    IF in.revents \cap {"POLLERR", "POLLHUP"} # {}
    THEN ServiceBail3(s)
    ELSE IF "POLLIN" \notin in.revents
    THEN ServiceBail3(s)
    ELSE ReadLoop(s, "uninit", in)

\* lws_client_socket_service: switch (wsi->mode)
lws_client_socket_service(s, in) ==
    LET s0 == [s EXCEPT !.last = Journal(s.wsi.mode, in.revents)]
    IN CASE s.wsi.mode = "WAITING_PROXY_REPLY" -> WaitingProxyReply(s0, in)
         [] s.wsi.mode = "ISSUE_HANDSHAKE" -> IssueHandshake(s0, in)
         [] s.wsi.mode = "WAITING_SERVER_REPLY" -> WaitingServerReply(s0, in)
         [] OTHER -> s0

\* ------------------------------------------------------------ the inputs

NoResp == [k \in Tokens |-> NoToken]

\* The header values of a well-formed answer to a request whose expected
\* accept value is hash.
GoodResp(hash) ==
    [k \in Tokens |->
        CASE k = "HTTP" -> Tok(<<"1","0","1"," ","S","w","i","t","c","h",
                                 "i","n","g">>)
          [] k = "UPGRADE" -> Tok(s_websocket)
          [] k = "CONNECTION" -> Tok(<<"U","p","g","r","a","d","e">>)
          [] k = "ACCEPT" -> Tok(hash)
          [] OTHER -> NoToken]

StatusValues ==
    { NoToken, Tok(<<"2","0","0"," ","O","K">>), Tok(<<"1","0","1">>) }

UpgradeValues ==
    { NoToken, Tok(<<"W","e","b","S","o","c","k","e","t">>),
      Tok(<<"W","E","B","S","O","C","K","E","T">>),
      Tok(<<"w","e","b","s","o","c","k","e","t","s">>) }

ConnectionValues ==
    { NoToken, Tok(s_upgrade), Tok(<<"U","P","G","R","A","D","E">>),
      Tok(<<"k","e","e","p","-","a","l","i","v","e">>) }

AcceptValues ==
    { NoToken,
      Tok(<<"A","A","A","A","A","A","A","A","A","A","A","A","A","A","A","A",
            "A","A","A","A","A","A","A","A","A","A","A","=">>) }

ProtocolValues ==
    { Tok(s_chat), Tok(s_superchat), Tok(s_video), Tok(<<"c","h","a">>),
      Tok(<<"h","a","t">>) }

ExtensionValues ==
    { Tok(s_deflate), Tok(<<"d","e","f","l","a","t","e",","," ","m","u","x">>),
      Tok(<<"m","u","x",",","d","e","f","l","a","t","e">>),
      Tok(<<"b","o","g","u","s">>),
      Tok(<<"m","u","x",",","b","o","g","u","s">>),
      Tok(<<"m","u","x",",">>) }

\* The responses a server may send: the well-formed one with any protocol
\* pick and any extension list, the ones with one required value changed
\* or missing, and ones whose accept value is wrong after a good protocol
\* and a good extension.
AllResponses(hash) ==
    LET good == GoodResp(hash)
        full == [good EXCEPT !["PROTOCOL"] = Tok(s_chat),
                             !["EXTENSIONS"] = Tok(s_deflate)]
    IN {[good EXCEPT !["PROTOCOL"] = p, !["EXTENSIONS"] = e] :
            p \in ProtocolValues \cup {NoToken},
            e \in ExtensionValues \cup {NoToken}}
       \cup {[good EXCEPT !["HTTP"] = v] : v \in StatusValues}
       \cup {[good EXCEPT !["UPGRADE"] = v] : v \in UpgradeValues}
       \cup {[good EXCEPT !["CONNECTION"] = v] : v \in ConnectionValues}
       \cup {[r EXCEPT !["ACCEPT"] = v] : r \in {good, full},
                                          v \in AcceptValues}

\* A few of them: well-formed, with and without a protocol and extensions;
\* a refusal; a missing header; an unknown extension; a wrong accept value.
SomeResponses(hash) ==
    LET good == GoodResp(hash)
    IN { good,
         [good EXCEPT !["PROTOCOL"] = Tok(s_chat),
                      !["EXTENSIONS"] = Tok(s_deflate)],
         [good EXCEPT !["HTTP"] = Tok(<<"2","0","0"," ","O","K">>)],
         [good EXCEPT !["UPGRADE"] = NoToken],
         [good EXCEPT !["PROTOCOL"] = Tok(s_superchat)],
         [good EXCEPT !["EXTENSIONS"] = Tok(<<"m","u","x",",","b","o","g","u","s">>)],
         [good EXCEPT !["EXTENSIONS"] = Tok(s_deflate),
                      !["ACCEPT"] = Tok(<<"A","A","A","A","A","A","A","A","A",
                            "A","A","A","A","A","A","A","A","A","A","A","A",
                            "A","A","A","A","A","A","=">>)] }

\* The runs are of two families: "transport" runs take the connection
\* through every transport (proxy, TLS, plain), every split of the stream
\* and every failure, with a few responses; "negotiation" runs are direct
\* plain connections whose response arrives whole, with every response.
Responses(hash) ==
    IF net.profile = "negotiation" THEN AllResponses(hash)
    ELSE SomeResponses(hash)

\* What the extension and user callbacks answer while the request is built
VetoChoices ==
    { [ext |-> {}, user |-> {}],
      [ext |-> {<<1, 0>>}, user |-> {1}] }

NoInput ==
    [revents |-> {"POLLIN"}, recv |-> NoRecv, connect |-> "none",
     verify |-> "none", random |-> "fail", ext_veto |-> {}, user_veto |-> {},
     append |-> "", write |-> "ok", stall |-> "wouldblock", garbage |-> "x",
     resp |-> NoResp, ub |-> "crash", ext_alloc_fail |-> 0,
     user_alloc_fail |-> FALSE, rx_alloc_fail |-> FALSE, filter |-> 0]

\* Every answer of the callbacks polled while the request is built: one
\* extension vetoing another or itself, the user refusing any of them.
RequestVetoChoices ==
    [ext : {{}, {<<1, 0>>}, {<<0, 1>>}, {<<0, 0>>}, {<<0, 0>>, <<1, 1>>}},
     user : SUBSET (0..(NExt - 1))]

GenInputs ==
    {[NoInput EXCEPT !.random = "fail"]}
    \cup {[NoInput EXCEPT !.random = n, !.ext_veto = v.ext,
                          !.user_veto = v.user, !.write = w] :
            n \in IF net.profile = "transport" THEN {"golden"}
                  ELSE Nonces,
            v \in CASE net.profile = "negotiation" -> VetoChoices
                    [] net.profile = "request" -> RequestVetoChoices
                    [] OTHER -> {[ext |-> {}, user |-> {}]},
            w \in {"ok", "fail"}}

ConnectResults ==
    {"OK", "SSL_ERROR_WANT_READ", "SSL_ERROR_WANT_WRITE", "SSL_ERROR_SSL",
     "ZERO"}

VerifyResults ==
    {"X509_V_OK", "X509_V_ERR_DEPTH_ZERO_SELF_SIGNED_CERT",
     "X509_V_ERR_CERT_HAS_EXPIRED"}

IssueInputs(use_ssl) ==
    IF use_ssl = 0 THEN GenInputs
    ELSE {[NoInput EXCEPT !.connect = c] : c \in ConnectResults \ {"OK"}}
         \cup {[NoInput EXCEPT !.connect = "OK", !.verify = v] :
                  v \in {x \in VerifyResults : VerifyRejects(use_ssl, x)}}
         \cup {[g EXCEPT !.connect = "OK", !.verify = v] :
                  g \in GenInputs,
                  v \in {x \in VerifyResults : ~VerifyRejects(use_ssl, x)}}

Received(data) == [n |-> Len(data), data |-> data]

\* What the proxy may answer: accepted, refused, a first segment shorter
\* than 13 bytes, nothing before it closes the connection.
ProxyReplies ==
    { <<"H","T","T","P","/","1",".","0"," ","2","0","0"," ","O","K">>,
      <<"H","T","T","P","/","1",".","0"," ","4","0","7"," ","N","o">>,
      <<"H","T","T","P","/","1",".","0"," ","2">>,
      <<>> }

\* Once the proxy has answered, the socket carries the tunnelled server's
\* bytes (a TLS record), or nothing.
TunnelBytes == { <<"#","#","#">>, <<>> }

ProxyInputs(s) ==
    LET replies == IF s.sock.proxy_reads = 0 THEN ProxyReplies
                   ELSE TunnelBytes
        passes(d) == strcmp_eq(
            CString(Terminate(RecvInto(s.service_buffer, d))), s_proxy_ok)
    IN {[NoInput EXCEPT !.revents = rv] :
            rv \in {{"POLLERR"}, {"POLLIN", "POLLHUP"}}}
       \cup {[NoInput EXCEPT !.revents = rv, !.recv = NoRecv] :
                rv \in {{"POLLIN"}, {"POLLOUT"}}}
       \cup {[NoInput EXCEPT !.revents = rv, !.recv = Received(d)] :
                d \in {x \in replies : ~passes(x)},
                rv \in {{"POLLIN"}, {"POLLOUT"}}}
       \cup {[i EXCEPT !.revents = rv, !.recv = Received(d)] :
                i \in IssueInputs(s.wsi.use_ssl),
                d \in {x \in replies : passes(x)},
                rv \in {{"POLLIN"}, {"POLLOUT"}}}

Bytes == {CR, LF, "x"}

ReplyInputs(s) ==
    {[NoInput EXCEPT !.revents = rv] :
        rv \in {{"POLLERR"}, {"POLLIN", "POLLHUP"}, {"POLLOUT"}}}
    \cup {[NoInput EXCEPT !.stall = st, !.garbage = g] :
            st \in {"wouldblock", "error"},
            g \in IF s.sock.taken = net.arrived /\ net.eof THEN Bytes
                  ELSE {"x"}}

\* At most one allocation of a service call fails.
AllocChoices ==
    { [ext |-> 0, user |-> FALSE, rx |-> FALSE],
      [ext |-> 1, user |-> FALSE, rx |-> FALSE],
      [ext |-> 2, user |-> FALSE, rx |-> FALSE],
      [ext |-> 0, user |-> TRUE, rx |-> FALSE],
      [ext |-> 0, user |-> FALSE, rx |-> TRUE] }

\* A run of the interpreter reads through a NULL pointer when a required
\* header is missing, or when a protocol came back and none was offered.
ReadsNull(w, resp) ==
    \/ \E k \in {"HTTP", "UPGRADE", "CONNECTION", "ACCEPT"} :
            resp[k].token.null
    \/ w.c_protocol.null /\ resp["PROTOCOL"].token_len # 0

\* What the user callback returns for CLIENT_FILTER_PRE_ESTABLISH: zero,
\* or non-zero to refuse the connection (tried when no allocation fails).
FilterReturns == {0, 1}

InterpretInputs(w, in) ==
    UNION { UNION { {[in EXCEPT !.resp = r, !.ub = u,
                                !.ext_alloc_fail = a.ext,
                                !.user_alloc_fail = a.user,
                                !.rx_alloc_fail = a.rx, !.filter = f] :
                        u \in IF ReadsNull(w, r) THEN UbOutcomes
                              ELSE {"crash"},
                        f \in IF a.ext = 0 /\ ~a.user /\ ~a.rx
                              THEN FilterReturns ELSE {0}} :
                    a \in AllocChoices } :
            r \in Responses(w.initial_handshake_hash_base64) }

\* ---------------------------------------------------------- specification

s_path == <<"/">>

s_host == <<"h","o","s","t">>

s_origin == <<"o","r","g">>

OfferedLists ==
    { NULL, Str(s_chat),
      Str(<<"c","h","a","t",",","s","u","p","e","r","c","h","a","t">>),
      Str(<<"c","h","a","t",","," ","s","u","p","e","r","c","h","a","t">>),
      Str(<<"v","i","d","e","o",",","c","h","a","t",",","s","u","p","e","r",
            "c","h","a","t">>) }

\* origin and protocol revision of the connection
Targets ==
    { [c_origin |-> NULL, ietf_spec_revision |-> 0],
      [c_origin |-> Str(s_origin), ietf_spec_revision |-> 13] }

\* What another connection of the context may have left in the service
\* buffer: nothing, or the reply of its proxy.
StaleBuffers ==
    { <<>>, <<"H","T","T","P","/","1",".","0"," ","2","0","0"," ","O","K">> }

\* The connection as libwebsocket_client_connect hands it to the service
\* loop: waiting for the proxy's reply, or about to issue the handshake.
InitWsi(mode, use_ssl, offered, target) ==
    [mode |-> mode,
     state |-> "WSI_STATE_CLIENT_UNCONNECTED",
     use_ssl |-> use_ssl,
     ssl |-> FALSE,
     c_path |-> Str(s_path),
     c_host |-> Str(s_host),
     c_origin |-> target.c_origin,
     c_protocol |-> offered,
     c_callback |-> NoCallback,
     protocol |-> NoProtocol,
     ietf_spec_revision |-> target.ietf_spec_revision,
     user_space |-> FALSE,
     count_active_extensions |-> 0,
     active_extensions |-> <<>>,
     active_extensions_user |-> <<>>,
     pending_timeout |->
        IF mode = "WAITING_PROXY_REPLY"
        THEN "PENDING_TIMEOUT_AWAITING_PROXY_RESPONSE"
        ELSE "PENDING_TIMEOUT_SENT_CLIENT_HANDSHAKE",
     parser_state |-> "ZERO",
     lextable_pos |-> 0,
     hdrs |-> NoResp,
     initial_handshake_hash_base64 |-> <<>>,
     rx_user_buffer |-> FALSE]

InitRest ==
    /\ heap = [frees |-> [k \in OwnedStrings |-> 0],
               token_frees |-> [k \in Tokens |-> 0],
               blocks |-> 0]
    /\ calls = <<>>
    /\ closes = <<>>
    /\ sock = [pollout |-> FALSE, sent |-> <<>>, taken |-> 0, fed |-> <<>>,
               proxy_reads |-> 0, resp |-> NoResp]
    /\ crashed = FALSE
    /\ last = Journal("none", {})
    /\ ticks = 0

InitTransport ==
    /\ \E mode \in {"WAITING_PROXY_REPLY", "ISSUE_HANDSHAKE"},
          use_ssl \in 0..2,
          offered \in {NULL, Str(<<"c","h","a","t",",","s","u","p","e","r",
                                   "c","h","a","t">>)} :
            wsi = InitWsi(mode, use_ssl, offered,
                          [c_origin |-> NULL, ietf_spec_revision |-> 0])
    /\ service_buffer \in
          IF wsi.mode = "WAITING_PROXY_REPLY" THEN StaleBuffers ELSE {<<>>}
    /\ net = [profile |-> "transport", wire |-> <<>>, arrived |-> 0,
              eof |-> FALSE]
    /\ InitRest

InitNegotiation ==
    /\ \E offered \in OfferedLists, target \in Targets :
            wsi = InitWsi("ISSUE_HANDSHAKE", 0, offered, target)
    /\ service_buffer = <<>>
    /\ net = [profile |-> "negotiation", wire |-> <<>>, arrived |-> 0,
              eof |-> FALSE]
    /\ InitRest

Init == InitTransport \/ InitNegotiation

\* origin and revision of the connections whose request is examined
RequestTargets ==
    [c_origin : {NULL, Str(s_origin)}, ietf_spec_revision : {0, 8, 13}]

\* "request" runs: direct plain connections of every origin, revision
\* and offer, about to build their request.
InitRequest ==
    /\ \E offered \in {NULL, Str(s_chat),
                        Str(<<"c","h","a","t",",","s","u","p","e","r",
                              "c","h","a","t">>)},
          target \in RequestTargets :
            wsi = InitWsi("ISSUE_HANDSHAKE", 0, offered, target)
    /\ service_buffer = <<>>
    /\ net = [profile |-> "request", wire |-> <<>>, arrived |-> 0,
              eof |-> FALSE]
    /\ InitRest

Alive == closes = <<>> /\ ~crashed /\ ticks < MaxTicks

Tick == ticks' = ticks + 1 /\ UNCHANGED net

\* A poll event for a connection waiting for its proxy
ServiceProxyReply ==
    /\ Alive
    /\ wsi.mode = "WAITING_PROXY_REPLY"
    /\ \E in \in ProxyInputs(Cur) :
            Commit(lws_client_socket_service(Cur, in))
    /\ Tick

\* A poll event for a connection that is to issue its handshake
ServiceIssueHandshake ==
    /\ Alive
    /\ wsi.mode = "ISSUE_HANDSHAKE"
    /\ \E in \in IssueInputs(wsi.use_ssl) :
            Commit(lws_client_socket_service(Cur, in))
    /\ Tick

\* A poll event for a connection waiting for the server's response. The
\* server's header values are drawn when the call reads the response to
\* its end, with the allocation results of the interpreter.
ServiceServerReply ==
    /\ Alive
    /\ wsi.mode = "WAITING_SERVER_REPLY"
    /\ \E in \in ReplyInputs(Cur) :
         LET probe == lws_client_socket_service(Cur, in)
         IN IF probe.last.read_end = "complete"
            THEN /\ in.stall = "wouldblock"
                 /\ \E full \in InterpretInputs(wsi, in) :
                        Commit(lws_client_socket_service(Cur, full))
            ELSE Commit(probe)
    /\ Tick

\* A poll event for an established connection: no case of the switch
ServiceEstablished ==
    /\ Alive
    /\ wsi.mode = "WS_CLIENT"
    /\ last.mode # "WS_CLIENT"
    /\ Commit(lws_client_socket_service(Cur, NoInput))
    /\ Tick

\* The bytes of a response on the wire: a line and the empty line. Two
\* bytes of a first frame follow it; a stream may be malformed.
RespBytes == <<"H", CR, LF, CR, LF>>

FrameBytes == <<"F", "r">>

Wires == { RespBytes \o FrameBytes, <<"H", "!">> }

\* The server answers the request: its first bytes arrive
ServerSends ==
    /\ closes = <<>> /\ ~crashed
    /\ sock.sent # <<>>
    /\ net.wire = <<>>
    /\ \E w \in Wires : \E k \in 1..Len(w) :
            /\ net.profile = "negotiation" =>
                    w = RespBytes \o FrameBytes /\ k = Len(RespBytes)
            /\ net' = [net EXCEPT !.wire = w, !.arrived = k]
    /\ UNCHANGED <<wsi, heap, calls, closes, sock, service_buffer, crashed,
                   last, ticks>>

\* More bytes of the stream arrive
MoreArrives ==
    /\ closes = <<>> /\ ~crashed
    /\ ~net.eof
    /\ net.arrived < Len(net.wire)
    /\ sock.taken = net.arrived
    /\ \E k \in (net.arrived + 1)..Len(net.wire) :
            net' = [net EXCEPT !.arrived = k]
    /\ UNCHANGED <<wsi, heap, calls, closes, sock, service_buffer, crashed,
                   last, ticks>>

\* The peer closes its end: nothing more arrives
PeerCloses ==
    /\ closes = <<>> /\ ~crashed
    /\ net.wire # <<>>
    /\ ~net.eof
    /\ net' = [net EXCEPT !.eof = TRUE]
    /\ UNCHANGED <<wsi, heap, calls, closes, sock, service_buffer, crashed,
                   last, ticks>>

Next ==
    \/ ServiceProxyReply
    \/ ServiceIssueHandshake
    \/ ServiceServerReply
    \/ ServiceEstablished
    \/ ServerSends
    \/ MoreArrives
    \/ PeerCloses

Spec == Init /\ [][Next]_vars

\* The building and sending of the request alone.
NextRequest == ServiceIssueHandshake

SpecRequest == InitRequest /\ [][NextRequest]_vars

\* ------------------------------------------------------------- the claims

\* The key the request carried, and the accept value that answers it.
SentKey == sock.sent[1][7].v

ExpectedAccept == AcceptB64(SentKey)

\* The names of a comma-separated list, blanks dropped.
RECURSIVE Split(_, _)
Split(rest, cur) ==
    IF rest = <<>> THEN {cur}
    ELSE IF Head(rest) = "," THEN {cur} \cup Split(Tail(rest), <<>>)
    ELSE IF Head(rest) \in {" ", "\t"} THEN Split(Tail(rest), cur)
    ELSE Split(Tail(rest), Append(cur, Head(rest)))

ListNames(chars) == Split(chars, <<>>)

EqualsIgnoringCase(a, b) ==
    /\ Len(a) = Len(b)
    /\ \A i \in 1..Len(a) : tolower(a[i]) = tolower(b[i])

BeginsWith101(chars) ==
    Len(chars) >= 3 /\ SubSeq(chars, 1, 3) = <<"1", "0", "1">>

Has(k) == ~sock.resp[k].token.null

Value(k) == sock.resp[k].token.s

Delivered(reason) == {i \in 1..Len(calls) : calls[i].cb = reason}

LastCallIs(reason) == calls # <<>> /\ calls[Len(calls)].cb = reason

\* The last service call ran the interpreter on a complete response.
Interpreted == last.read_end = "complete"

\* C1: a connection is ESTABLISHED only if the response as sent had a
\* status beginning with 101, Upgrade "websocket" and Connection
\* "upgrade" in any case, the expected accept value, a protocol among
\* those offered if it named one, and only registered extensions; a
\* response lacking one of the required headers is never accepted.
C1_AcceptanceSound ==
    wsi.state = "WSI_STATE_ESTABLISHED" =>
        /\ Has("HTTP") /\ BeginsWith101(Value("HTTP"))
        /\ Has("UPGRADE") /\ EqualsIgnoringCase(Value("UPGRADE"), s_websocket)
        /\ Has("CONNECTION")
        /\ EqualsIgnoringCase(Value("CONNECTION"), s_upgrade)
        /\ Has("ACCEPT") /\ Value("ACCEPT") = ExpectedAccept
        /\ Has("PROTOCOL") =>
              /\ ~wsi.c_protocol.null
              /\ Value("PROTOCOL") \in ListNames(wsi.c_protocol.s)
        /\ Has("EXTENSIONS") =>
              ListNames(Value("EXTENSIONS")) \subseteq
                  {Extensions[n].name : n \in 1..Len(Extensions)}

ValidationFailures ==
    {"status", "upgrade", "connection", "protocol_not_offered",
     "protocol_not_registered", "unknown_extension", "accept"}

C3_OfferAcceptRoundTrip ==
    (/\ Interpreted /\ ~crashed
     /\ last.bail \notin {"status", "upgrade", "connection"}
     /\ Has("PROTOCOL")) =>
        LET p == Value("PROTOCOL")
            offered == IF wsi.c_protocol.null THEN {}
                       ELSE ListNames(wsi.c_protocol.s)
            named == {n \in 1..Len(Protocols) : Protocols[n].name = p}
        IN IF p \in offered
           THEN named # {} =>
                    /\ wsi.protocol + 1 \in named
                    /\ wsi.c_callback = wsi.protocol
           ELSE /\ closes = <<"PROTOCOL_ERR">>
                /\ wsi.protocol = NoProtocol

HappyResponse ==
    /\ Has("HTTP") /\ BeginsWith101(Value("HTTP"))
    /\ Has("UPGRADE") /\ EqualsIgnoringCase(Value("UPGRADE"), s_websocket)
    /\ Has("CONNECTION") /\ EqualsIgnoringCase(Value("CONNECTION"), s_upgrade)
    /\ Has("ACCEPT") /\ Value("ACCEPT") = ExpectedAccept
    /\ ~Has("PROTOCOL")
    /\ ~Has("EXTENSIONS")

\* C4: a response with a 101 status, Upgrade "websocket" and Connection
\* "upgrade" in any case, the right accept value and neither protocol nor
\* extensions, interpreted without an allocation failing, leaves the
\* connection ESTABLISHED in mode WS_CLIENT, bound to registry entry 0,
\* open, with CLIENT_ESTABLISHED delivered exactly once.
C4_HappyPath ==
    (/\ Interpreted
     /\ HappyResponse
     /\ last.bail \notin {"user_space", "rx_buffer"}) =>
        /\ wsi.state = "WSI_STATE_ESTABLISHED"
        /\ wsi.mode = "WS_CLIENT"
        /\ wsi.protocol = 0
        /\ closes = <<>>
        /\ Cardinality(Delivered("LWS_CALLBACK_CLIENT_ESTABLISHED")) = 1

\* An upper-case Upgrade value and a capitalised Connection value led to
\* an established connection.
C4_Witness ==
    /\ Interpreted
    /\ HappyResponse
    /\ Value("UPGRADE") = <<"W","E","B","S","O","C","K","E","T">>
    /\ Value("CONNECTION") = <<"U","p","g","r","a","d","e">>
    /\ wsi.state = "WSI_STATE_ESTABLISHED"
    /\ LastCallIs("LWS_EXT_CALLBACK_ANY_WSI_ESTABLISHED")

\* The offset of the end of the first CR LF CR LF of a stream, 0 when it
\* has none.
EndOfResponse(wire) ==
    LET ends == {i \in 4..Len(wire) :
                    SubSeq(wire, i - 3, i) = <<CR, LF, CR, LF>>}
    IN IF ends = {} THEN 0
       ELSE CHOOSE i \in ends : \A j \in ends : i <= j

\* The parser has reported a response complete that had wholly arrived.
ResponseRead ==
    /\ sock.resp # NoResp
    /\ EndOfResponse(net.wire) # 0
    /\ net.arrived >= EndOfResponse(net.wire)

\* C5: however the response is split across reads, once the parser has
\* reported it complete the bytes taken from the transport are those up to
\* the end of its CR LF CR LF, then and ever after: what follows stays on
\* the transport.
C5_NoOverRead ==
    ResponseRead => sock.taken = EndOfResponse(net.wire)

\* The response was read while frame bytes had arrived behind it, and a
\* later service call has left them there.
C5_Witness ==
    /\ ResponseRead
    /\ net.arrived = Len(net.wire)
    /\ sock.taken < net.arrived
    /\ wsi.mode = "WS_CLIENT"
    /\ last.mode = "WS_CLIENT"

\* C6: once a failed connection has been handed to the close path, each
\* owned string that was allocated and each header token of the response
\* has been released exactly once.
C6_ReleasedExactlyOnce ==
    closes # <<>> =>
        /\ \A k \in OwnedStrings : ~wsi[k].null => heap.frees[k] = 1
        /\ \A k \in Tokens : Has(k) => heap.token_frees[k] = 1

SoftErrors == {"SSL_ERROR_WANT_READ", "SSL_ERROR_WANT_WRITE"}

\* C7: after a service call whose TLS connect returned want-read or
\* want-write, the session is open, no request has been written, writable
\* interest is requested and the mode is the one the call started in; and
\* the next service call attempts the TLS connect again without reading
\* the proxy's reply again.
C7_SoftConnectLossless ==
    [][last.connect \in SoftErrors =>
          /\ closes = <<>>
          /\ sock.sent = <<>>
          /\ sock.pollout
          /\ wsi.mode = last.mode
          /\ ticks' = ticks + 1 =>
                /\ last'.connect # "none"
                /\ ~last'.proxy_read]_vars

HardErrors == {"SSL_ERROR_SSL", "ZERO"}

\* C8 as stated: a hard failure of the TLS connect closes the session in
\* the same service call, as does a certificate the mode does not
\* tolerate; a self-signed certificate in permissive mode does not; and
\* no request is written once the connect has failed hard.
C8_HardFailureCloses ==
    /\ last.connect \in HardErrors => closes # <<>> /\ sock.sent = <<>>
    /\ (last.connect = "OK" /\ last.verify # "X509_V_OK"
            /\ wsi.use_ssl = 1) => closes # <<>>
    /\ (last.connect = "OK" /\ wsi.use_ssl = 2
            /\ last.verify = "X509_V_ERR_DEPTH_ZERO_SELF_SIGNED_CERT") =>
          last.generated

\* C8 as amended: a hard failure of the TLS connect ends the service call
\* with the session open, the mode unchanged and nothing generated or
\* written by that call; a certificate that is not verified closes the
\* session with NOSTATUS in the same call, nothing written, unless it is
\* self-signed and the mode permissive, and then the call goes on to
\* generate the request.
C8_HardFailureReturns ==
    /\ last.connect \in HardErrors =>
          /\ closes = <<>>
          /\ wsi.mode = last.mode
          /\ ~last.generated /\ last.write = "none"
          /\ sock.sent = <<>>
    /\ (/\ last.connect = "OK"
        /\ last.verify # "X509_V_OK"
        /\ ~(wsi.use_ssl = 2 /\
             last.verify = "X509_V_ERR_DEPTH_ZERO_SELF_SIGNED_CERT")) =>
          /\ closes = <<"NOSTATUS">>
          /\ ~last.generated /\ last.write = "none"
          /\ sock.sent = <<>>
    /\ (/\ last.connect = "OK"
        /\ wsi.use_ssl = 2
        /\ last.verify = "X509_V_ERR_DEPTH_ZERO_SELF_SIGNED_CERT") =>
          last.generated

\* A self-signed certificate in permissive mode: the request went out.
C8_Witness ==
    /\ last.connect = "OK"
    /\ wsi.use_ssl = 2
    /\ last.verify = "X509_V_ERR_DEPTH_ZERO_SELF_SIGNED_CERT"
    /\ last.write = "ok"
    /\ wsi.mode = "WAITING_SERVER_REPLY"
    /\ closes = <<>>

\* C9: when a one-byte read finds no byte available before the response
\* is complete, on a plain socket as under TLS, the service call returns
\* with the session open, the mode WAITING_SERVER_REPLY and the parser
\* fed exactly the bytes taken so far.
C9_SegmentsTolerated ==
    last.read_end \in {"EAGAIN", "SSL_ERROR_WANT_READ"} =>
        /\ closes = <<>>
        /\ wsi.mode = "WAITING_SERVER_REPLY"
        /\ sock.fed = SubSeq(net.wire, 1, sock.taken)

StartsWithOk(data) ==
    Len(data) >= ProxyPrefixLen
    /\ SubSeq(data, 1, ProxyPrefixLen) = s_proxy_ok

\* C10: a proxy reply that does not start with the 13 bytes
\* "HTTP/1.0 200 " closes the session with NOSTATUS and no request is ever
\* written; one that does clears the proxy timeout and the handshake is
\* issued.
C10_ProxyReply ==
    last.proxy_read =>
        IF StartsWithOk(last.recv.data)
        THEN /\ wsi.pending_timeout #
                    "PENDING_TIMEOUT_AWAITING_PROXY_RESPONSE"
             /\ Delivered("LWS_CALLBACK_CLEAR_MODE_POLL_FD") # {}
        ELSE /\ closes = <<"NOSTATUS">>
             /\ sock.sent = <<>>

\* The place of a mode in the handshake.
ModeRank(mode) ==
    CASE mode = "WAITING_PROXY_REPLY" -> 1
      [] mode = "ISSUE_HANDSHAKE" -> 2
      [] mode = "WAITING_SERVER_REPLY" -> 3
      [] mode = "WS_CLIENT" -> 4

\* C11: no step moves the mode back in the order WAITING_PROXY_REPLY,
\* ISSUE_HANDSHAKE, WAITING_SERVER_REPLY, WS_CLIENT, and no step moves an
\* established connection out of WS_CLIENT.
C11_ModeMonotonic ==
    [][/\ ModeRank(wsi'.mode) >= ModeRank(wsi.mode)
       /\ wsi.mode = "WS_CLIENT" => wsi'.mode = "WS_CLIENT"]_vars

\* A connection that began at the proxy is established, and a later
\* service call has left it so.
C11_Witness ==
    /\ sock.proxy_reads > 0
    /\ wsi.mode = "WS_CLIENT"
    /\ wsi.state = "WSI_STATE_ESTABLISHED"
    /\ last.mode = "WS_CLIENT"
    /\ closes = <<>>

\* The items of a list separated by commas, spaces or tabs, in order,
\* empty items left out.
RECURSIVE Items(_, _)
Items(rest, cur) ==
    LET done == IF cur = <<>> THEN <<>> ELSE <<cur>>
    IN IF rest = <<>> THEN done
       ELSE IF Head(rest) \in {",", " ", "\t"}
       THEN done \o Items(Tail(rest), <<>>)
       ELSE Items(Tail(rest), Append(cur, Head(rest)))

\* The extensions the server listed, in its order.
ListedExtensions ==
    IF Has("EXTENSIONS") THEN Items(Value("EXTENSIONS"), <<>>) ELSE <<>>

Registered(name) == \E e \in 1..NExt : Extensions[e].name = name

\* The registry index (from 0) of a registered name.
RegistryIndex(name) ==
    (CHOOSE e \in 1..NExt : Extensions[e].name = name) - 1

\* The calls made after the request was built.
AfterRequest ==
    LET a == Delivered("LWS_CALLBACK_CLIENT_APPEND_HANDSHAKE_HEADER")
    IN IF a = {} THEN calls
       ELSE SubSeq(calls, (CHOOSE i \in a : TRUE) + 1, Len(calls))

\* The state block of a registered extension on this connection, 0 when
\* the server did not list it: the k-th listed extension holds block k.
ListedBlock(ext) ==
    LET ks == {k \in 1..Len(ListedExtensions) :
                 Registered(ListedExtensions[k])
                 /\ RegistryIndex(ListedExtensions[k]) = ext}
    IN IF ks = {} THEN 0 ELSE CHOOSE k \in ks : \A j \in ks : j <= k

Established ==
    /\ wsi.state = "WSI_STATE_ESTABLISHED"
    /\ Delivered("LWS_CALLBACK_CLIENT_ESTABLISHED") # {}

\* C12: after a successful handshake the callbacks made since the request
\* was built are CLIENT_CONSTRUCT for each listed extension in the order
\* the server listed them, then FILTER_PRE_ESTABLISH, then
\* CLIENT_ESTABLISHED, then ANY_WSI_ESTABLISHED for every registered
\* extension in registry order, with the connection's state block for an
\* active extension and null for the others; and CLIENT_ESTABLISHED is
\* never delivered without FILTER_PRE_ESTABLISH before it.
C12_CallbackOrder ==
    /\ Established =>
         /\ \A k \in 1..Len(ListedExtensions) :
               Registered(ListedExtensions[k])
         /\ AfterRequest =
              [k \in 1..Len(ListedExtensions) |->
                  [cb |-> "LWS_EXT_CALLBACK_CLIENT_CONSTRUCT",
                   idx |-> RegistryIndex(ListedExtensions[k]),
                   arg |-> k]]
              \o <<[cb |-> "LWS_CALLBACK_CLIENT_FILTER_PRE_ESTABLISH",
                    idx |-> wsi.protocol, arg |-> 0],
                   [cb |-> "LWS_CALLBACK_CLIENT_ESTABLISHED",
                    idx |-> wsi.protocol, arg |-> 0]>>
              \o [e \in 1..NExt |->
                  [cb |-> "LWS_EXT_CALLBACK_ANY_WSI_ESTABLISHED",
                   idx |-> e - 1, arg |-> ListedBlock(e - 1)]]
    /\ \A i \in Delivered("LWS_CALLBACK_CLIENT_ESTABLISHED") :
          \E j \in Delivered("LWS_CALLBACK_CLIENT_FILTER_PRE_ESTABLISH") :
             j < i

\* The server listed mux before deflate, the reverse of the registry, and
\* the connection is established with both active.
C12_Witness ==
    /\ Established
    /\ ListedExtensions = <<s_mux, s_deflate>>
    /\ wsi.active_extensions = <<1, 0>>
    /\ LastCallIs("LWS_EXT_CALLBACK_ANY_WSI_ESTABLISHED")

\* C13: when the user callback answers CLIENT_FILTER_PRE_ESTABLISH with a
\* non-zero value the connection is not ESTABLISHED, CLIENT_ESTABLISHED is
\* not delivered and the session is closed.
C13_UserVeto ==
    (Interpreted /\ last.filter > 0) =>
        /\ wsi.state # "WSI_STATE_ESTABLISHED"
        /\ Delivered("LWS_CALLBACK_CLIENT_ESTABLISHED") = {}
        /\ closes # <<>>

\* C14 as claimed: a connection that is not ESTABLISHED has no active
\* extension and no extension state block.
C14_EmptyUnlessEstablished ==
    wsi.state # "WSI_STATE_ESTABLISHED" =>
        /\ wsi.count_active_extensions = 0
        /\ wsi.active_extensions_user = <<>>

\* C14: the active extensions are those the interpreter instantiated from
\* the server's list, one state block each; a connection that holds some
\* and is not ESTABLISHED has been closed by the service call that
\* instantiated them (or the process died in it), so an open connection
\* that is not ESTABLISHED has none.
C14_ActiveOnlyWhenEstablishedOrClosed ==
    /\ wsi.count_active_extensions = Len(wsi.active_extensions)
    /\ wsi.count_active_extensions = Len(wsi.active_extensions_user)
    /\ wsi.count_active_extensions > 0 =>
         /\ Has("EXTENSIONS")
         /\ wsi.count_active_extensions <= Len(ListedExtensions)
         /\ \/ wsi.state = "WSI_STATE_ESTABLISHED"
            \/ closes # <<>>
            \/ crashed

\* The server listed a registered extension and sent a wrong accept value:
\* the session is closed with the extension instantiated.
C14_Witness ==
    /\ Interpreted
    /\ last.bail = "accept"
    /\ wsi.count_active_extensions > 0
    /\ wsi.state # "WSI_STATE_ESTABLISHED"
    /\ closes = <<"PROTOCOL_ERR">>

Open == closes = <<>> /\ ~crashed

\* C15: after every service call an open connection that is not yet
\* ESTABLISHED has a timeout armed; in WAITING_SERVER_REPLY the armed
\* timeout is AWAITING_SERVER_RESPONSE; an ESTABLISHED connection has no
\* handshake timeout pending.
C15_TimeoutArmed ==
    /\ (Open /\ wsi.state # "WSI_STATE_ESTABLISHED") =>
          wsi.pending_timeout # "NO_PENDING_TIMEOUT"
    /\ (Open /\ wsi.mode = "WAITING_SERVER_REPLY") =>
          wsi.pending_timeout = "PENDING_TIMEOUT_AWAITING_SERVER_RESPONSE"
    /\ wsi.state = "WSI_STATE_ESTABLISHED" =>
          wsi.pending_timeout = "NO_PENDING_TIMEOUT"

\* C16: a connection in WAITING_SERVER_REPLY holds a non-empty expected
\* accept value, the base64 SHA-1 of the key written in the
\* Sec-WebSocket-Key line of its request followed by the GUID; for the key
\* AQIDBAUGBwgJCgsMDQ4PEA== it is 9s+tbiL1atftAWKmEcpBvvOgk0E=.
C16_AcceptPrecomputed ==
    wsi.mode = "WAITING_SERVER_REPLY" =>
        /\ Len(sock.sent) = 1
        /\ sock.sent[1][7].h = "Sec-WebSocket-Key"
        /\ \E nonce \in Nonces : SentKey = KeyB64(nonce)
        /\ wsi.initial_handshake_hash_base64 # <<>>
        /\ wsi.initial_handshake_hash_base64 = AcceptB64(SentKey)
        /\ SentKey = "AQIDBAUGBwgJCgsMDQ4PEA==" =>
             wsi.initial_handshake_hash_base64 =
                <<"9","s","+","t","b","i","L","1","a","t","f","t","A","W",
                  "K","m","E","c","p","B","v","v","O","g","k","0","E","=">>

\* The request with the key of the nonce 01..10 was sent and the
\* connection waits for the reply.
C16_Witness ==
    /\ wsi.mode = "WAITING_SERVER_REPLY"
    /\ Open
    /\ last.generated
    /\ SentKey = "AQIDBAUGBwgJCgsMDQ4PEA=="

\* The header names of the request sent, line by line.
RequestLines == [i \in 1..Len(sock.sent[1]) |-> sock.sent[1][i].h]

\* C17: the request sent has its lines in the order GET, Pragma,
\* Cache-Control, Host, Upgrade, Connection, Sec-WebSocket-Key, the origin
\* header only when an origin is set (Origin for revision 13,
\* Sec-WebSocket-Origin otherwise), Sec-WebSocket-Protocol only when
\* protocols are offered, Sec-WebSocket-Extensions always,
\* Sec-WebSocket-Version only for a non-zero revision, what the user
\* appended, the empty line; the append callback is made once, after every
\* other callback of the request.
C17_RequestLineOrder ==
    sock.sent # <<>> =>
        /\ RequestLines =
             <<"GET", "Pragma", "Cache-Control", "Host", "Upgrade",
               "Connection", "Sec-WebSocket-Key">>
             \o (IF wsi.c_origin.null THEN <<>>
                 ELSE IF wsi.ietf_spec_revision = 13 THEN <<"Origin">>
                 ELSE <<"Sec-WebSocket-Origin">>)
             \o (IF wsi.c_protocol.null THEN <<>>
                 ELSE <<"Sec-WebSocket-Protocol">>)
             \o <<"Sec-WebSocket-Extensions">>
             \o (IF wsi.ietf_spec_revision # 0
                 THEN <<"Sec-WebSocket-Version">> ELSE <<>>)
             \o <<"user-appended", "">>
        /\ Cardinality(
             Delivered("LWS_CALLBACK_CLIENT_APPEND_HANDSHAKE_HEADER")) = 1
        /\ LastCallIs("LWS_CALLBACK_CLIENT_APPEND_HANDSHAKE_HEADER")

\* A request with an origin for a revision other than 13, protocols
\* offered and a version line was sent.
C17_Witness ==
    /\ sock.sent # <<>>
    /\ ~wsi.c_origin.null
    /\ wsi.ietf_spec_revision = 8
    /\ ~wsi.c_protocol.null
    /\ Len(sock.sent[1]) = 13

\* The last service call interpreted a response with an extension list and
\* came as far as that list.
ExtensionsInterpreted ==
    /\ Interpreted
    /\ ~crashed
    /\ Has("EXTENSIONS")
    /\ last.bail \in {"none", "ext_alloc", "unknown_extension", "accept",
                      "user_space", "rx_buffer"}

\* C18: a server list with a name that is not registered closes the
\* session with PROTOCOL_ERR; any other list (names separated by commas,
\* spaces or tabs, empty items skipped) is taken, and unless an allocation
\* failed the active extensions are the registry entries of the listed
\* names, in the listed order, each with a state block of its own.
C18_ServerExtensionList ==
    ExtensionsInterpreted =>
        IF \E k \in 1..Len(ListedExtensions) :
                ~Registered(ListedExtensions[k])
        THEN /\ last.bail \in {"unknown_extension", "ext_alloc"}
             /\ closes = <<"PROTOCOL_ERR">>
             /\ wsi.state # "WSI_STATE_ESTABLISHED"
        ELSE \/ last.bail = "ext_alloc"
             \/ /\ last.bail # "unknown_extension"
                /\ wsi.count_active_extensions = Len(ListedExtensions)
                /\ wsi.active_extensions =
                     [k \in 1..Len(ListedExtensions) |->
                         RegistryIndex(ListedExtensions[k])]
                /\ wsi.active_extensions_user =
                     [k \in 1..Len(ListedExtensions) |-> k]

\* The registered extensions (from 0) that no extension vetoes.
Unvetoed ==
    {e \in 0..(NExt - 1) :
        \A e1 \in 0..(NExt - 1) : <<e1, e>> \notin last.ext_veto}

\* Those the user callback allows as well.
Allowed == Unvetoed \ last.user_veto

\* The names of the allowed extensions from e on, in registry order, with
\* one comma between two names.
RECURSIVE JoinAllowed(_)
JoinAllowed(e) ==
    IF e >= NExt THEN <<>>
    ELSE LET rest == JoinAllowed(e + 1)
         IN IF e \notin Allowed THEN rest
            ELSE IF rest = <<>> THEN Extensions[e + 1].name
            ELSE Extensions[e + 1].name \o <<",">> \o rest

\* The value of the Sec-WebSocket-Extensions line of the request sent.
ProposedLine ==
    LET i == CHOOSE i \in 1..Len(sock.sent[1]) :
                sock.sent[1][i].h = "Sec-WebSocket-Extensions"
    IN sock.sent[1][i].v

\* The candidates the user callback was asked about, in the order asked.
Consulted ==
    LET at == Delivered("LWS_CALLBACK_CLIENT_CONFIRM_EXTENSION_SUPPORTED")
    IN [k \in 1..Cardinality(at) |->
          calls[CHOOSE i \in at :
                  Cardinality({j \in at : j <= i}) = k].arg]

\* C19: the Sec-WebSocket-Extensions line of the request names exactly the
\* registered extensions for which every extension answered zero to
\* CHECK_OK_TO_PROPOSE_EXTENSION and the user callback answered zero to
\* CLIENT_CONFIRM_EXTENSION_SUPPORTED, in registry order with single commas
\* between them; every extension is polled for every candidate, and the
\* user callback is asked once about each candidate no extension vetoed
\* and not about the others.
C19_ProposalFilter ==
    (sock.sent # <<>> /\ last.generated) =>
        /\ ProposedLine = JoinAllowed(0)
        /\ Cardinality(
             Delivered("LWS_EXT_CALLBACK_CHECK_OK_TO_PROPOSE_EXTENSION"))
               = NExt * NExt
        /\ Len(Consulted) = Cardinality(Unvetoed)
        /\ \A k \in 1..Len(Consulted) :
              /\ Consulted[k] \in Unvetoed
              /\ \A j \in 1..(k - 1) : Consulted[j] < Consulted[k]

\* The first extension vetoed the second, the user callback refused
\* nothing: the request proposes the first extension alone.
C19_Witness ==
    /\ sock.sent # <<>>
    /\ last.generated
    /\ last.ext_veto = {<<0, 1>>}
    /\ last.user_veto = {}
    /\ ProposedLine = s_deflate
    /\ Consulted = <<0>>

\* C20: the bytes fed to the header parser are the bytes taken from the
\* transport, each once and in arrival order, and no byte is fed by a
\* read that returned none.
C20_FedIsPrefixOfStream ==
    /\ sock.taken <= Len(net.wire)
    /\ sock.fed = SubSeq(net.wire, 1, sock.taken)
    /\ ~last.fed_without_read

\* The service call of this step was made with POLLERR or POLLHUP on a
\* connection waiting for its proxy or for the server.
DeadTransportCall ==
    /\ ticks' # ticks
    /\ wsi.mode \in {"WAITING_PROXY_REPLY", "WAITING_SERVER_REPLY"}
    /\ last'.revents \cap {"POLLERR", "POLLHUP"} # {}

\* The service call of this step failed to write the request.
WriteFailedCall == ticks' # ticks /\ last'.write = "fail"

\* C21: a service call with POLLERR or POLLHUP in WAITING_PROXY_REPLY or
\* WAITING_SERVER_REPLY closes the session with NOSTATUS, takes no byte
\* from the transport, feeds nothing to the parser, does not run the
\* interpreter and makes no callback; a service call whose request write
\* fails closes the session with NOSTATUS, sends nothing and leaves the
\* mode as it was, short of WAITING_SERVER_REPLY.
C21_TransportDeath ==
    [][/\ DeadTransportCall =>
            /\ closes' = <<"NOSTATUS">>
            /\ sock' = sock
            /\ ~last'.proxy_read
            /\ last'.read_end = "none"
            /\ calls' = calls
            /\ wsi'.mode = wsi.mode
            /\ wsi'.state # "WSI_STATE_ESTABLISHED"
       /\ WriteFailedCall =>
            /\ closes' = <<"NOSTATUS">>
            /\ sock'.sent = sock.sent
            /\ wsi'.mode = wsi.mode
            /\ wsi'.mode # "WAITING_SERVER_REPLY"
            /\ wsi'.state # "WSI_STATE_ESTABLISHED"]_vars

\* The server hung up with bytes of its response waiting to be read: the
\* session is closed and none of them was taken.
C21_Witness ==
    /\ last.mode = "WAITING_SERVER_REPLY"
    /\ "POLLHUP" \in last.revents
    /\ closes = <<"NOSTATUS">>
    /\ sock.taken < net.arrived
    /\ last.read_end = "none"

\* C22: libwebsocket_close_and_free_session is entered at most once for a
\* connection, whatever fails.
C22_ClosedAtMostOnce == Len(closes) <= 1

====
